---- MODULE Spec2Model ----
(***************************************************************************)
(* ImageNetDataset (training/utils/imagenet.py): the synset table built by *)
(* __init__, the resolution of a global index to (class, position), the    *)
(* load / remote fetch / resample control flow of __getitem__ and the      *)
(* geometry of the anchor crop and of the bounding-box regression target.  *)
(* Real numbers of the source are exact rationals [n, d] here.             *)
(***************************************************************************)
EXTENDS Integers, Sequences, FiniteSets, TLC

\* ------------------------------------------------------------------ bounds
MaxClasses == 2   \* number of synsets of the table (num_classes)
MaxTotal == 2     \* most annotation files in all synset directories together
MaxNest == 1      \* most __getitem__ activations suspended at a non-tail self[...] call

MaxSynsets == 34  \* most synsets load_synsets() hands update_imagenet_annotations
MaxEarly == 1     \* most download threads that have returned before their turn to be joined

MinExtent == 7    \* the literal 7 of lines 110 and 115
num_workers == 32 \* line 206

Null == "null"

\* a local that holds no image, box, measure or return value yet
Unset == [kind |-> "unset"]

\* ------------------------------------------------------- exact rationals
RECURSIVE Gcd(_, _)
Gcd(a, b) == IF b = 0 THEN a ELSE Gcd(b, a % b)

Abs(x) == IF x < 0 THEN -x ELSE x

Rat(n, d) ==
    LET s == IF d < 0 THEN -1 ELSE 1
        g == Gcd(Abs(n), Abs(d))
    IN  [n |-> (s * n) \div g, d |-> (s * d) \div g]

RInt(k) == [n |-> k, d |-> 1]
RAdd(a, b) == Rat(a.n * b.d + b.n * a.d, a.d * b.d)
RSub(a, b) == Rat(a.n * b.d - b.n * a.d, a.d * b.d)
RMul(a, b) == Rat(a.n * b.n, a.d * b.d)
RDiv(a, b) == Rat(a.n * b.d, a.d * b.n)
RLe(a, b) == a.n * b.d <= b.n * a.d
RMin(a, b) == IF RLe(a, b) THEN a ELSE b
RMax(a, b) == IF RLe(a, b) THEN b ELSE a
Half == Rat(1, 2)

\* ------------------------------------------------- the synset table
\* The running total np.cumsum keeps: element k is element k - 1 plus sizes[k]
RECURSIVE RunningTotal(_, _)
RunningTotal(sizes, k) ==
    IF k < 0 THEN 0 ELSE RunningTotal(sizes, k - 1) + sizes[k]

CumSumExclusive(sizes) == [k \in DOMAIN sizes |-> RunningTotal(sizes, k - 1)]

\* line 41: np.cumsum(self.synset_sizes), one ending index per synset
CumSum(sizes) == [k \in DOMAIN sizes |-> RunningTotal(sizes, k)]

\* the builtin sum over the list, from element k on
RECURSIVE SumFrom(_, _, _)
SumFrom(sizes, k, n) == IF k >= n THEN 0 ELSE sizes[k] + SumFrom(sizes, k + 1, n)

\* np.searchsorted(a, v), side 'left': binary search for the first position
\* whose element is not below v (n when there is none)
RECURSIVE Bisect(_, _, _, _)
Bisect(a, v, lo, hi) ==
    IF lo >= hi THEN lo
    ELSE LET mid == lo + ((hi - lo) \div 2)
         IN  IF a[mid] < v THEN Bisect(a, v, mid + 1, hi)
             ELSE Bisect(a, v, lo, mid)

SearchSorted(a, v) == Bisect(a, v, 0, Cardinality(DOMAIN a))

\* ------------------------------------------------------------ the state
VARIABLES
    synset_sizes,   \* self.synset_sizes: annotation files per synset, indexed from 0
    idx_end,        \* self._idx_end: ending global index of each synset
    stack,          \* the __getitem__ activations that are not finished; the last runs
    result,         \* what the last finished call gave its caller: a tuple or an error
    fate,           \* FairSpec: what the collaborators answer for each global index
    workers,        \* RaceSpec: the two batching workers inside lines 91-101
    disk,           \* RaceSpec: the image file the two workers load and write
    threads,        \* PoolSpec: the queue.Queue of line 204, oldest first
    finished_cnt,   \* PoolSpec: finished_cnt of line 205
    updater,        \* PoolSpec: where update_imagenet_annotations stands, its locals
    downloads,      \* PoolSpec: the download threads started, each with its state
    tmp_arch_storage \* PoolSpec: what /tmp/imagenet_update holds, or "removed"

raceVars == <<workers, disk>>
poolVars == <<threads, finished_cnt, updater, downloads, tmp_arch_storage>>
itemVars == <<synset_sizes, idx_end, stack, result, fate>>

\* the variables that __getitem__ on one dataset, called by one caller, does
\* not touch
elsewhere == <<fate, raceVars, poolVars>>

vars == <<itemVars, raceVars, poolVars>>

Classes == 0 .. (MaxClasses - 1)

\* lines 172-173: __len__ is sum(self.synset_sizes)
Length(sizes) == SumFrom(sizes, 0, MaxClasses)

\* ---------------------------------------------------- index resolution
\* line 51: cid = int(np.searchsorted(self._idx_end, index + 1))
ClassOfSameKey(cum, index) == SearchSorted(cum, index)

ClassOf(cum, index) == SearchSorted(cum, index + 1)

\* line 53: idx_in_class = index - (self._idx_end[cid - 1] if cid >= 1 else 0)
IdxInClass(cum, index, cid) == index - (IF cid >= 1 THEN cum[cid - 1] ELSE 0)

ClassLabelsShifted(cid) == [k \in Classes |-> IF k = (cid + 1) % MaxClasses THEN 1 ELSE 0]

\* lines 58-59: class_labels = [0] * self.num_classes; class_labels[cid] = 1
ClassLabels(cid) == [k \in Classes |-> IF k = cid THEN 1 ELSE 0]

\* ------------------------------------------------------------ geometry
\* The images the loader can return and the object boxes an annotation can
\* hold (xmin, xmax, ymin, ymax), all inside the image; the last has its xmin
\* and xmax swapped.
Images == {[width |-> 16, height |-> 12]}

Boxes == {
    [xmin |-> 1, xmax |-> 9,  ymin |-> 1, ymax |-> 9],   \* 8 x 8 off centre
    [xmin |-> 0, xmax |-> 14, ymin |-> 0, ymax |-> 7],   \* 14 x 7 in the corner
    [xmin |-> 2, xmax |-> 6,  ymin |-> 2, ymax |-> 12],  \* 4 x 10: too narrow
    [xmin |-> 3, xmax |-> 13, ymin |-> 4, ymax |-> 10],  \* 10 x 6: too flat
    [xmin |-> 9, xmax |-> 1,  ymin |-> 1, ymax |-> 9] }  \* xmax < xmin

\* The draws of the unit interval that the random reals are made of: both
\* ends (rounding lets the generator reach the upper one).
Grid == {Rat(0, 1), Rat(1, 1)}

\* np.random.uniform(low, high): low + (high - low) * u for a draw u of the
\* unit interval. The generator makes no check that low <= high.
Uniform(low, high, u) == RAdd(low, RMul(RSub(high, low), u))

DegenerateBoth(box) ==
    (box.xmax - box.xmin) < MinExtent /\ (box.ymax - box.ymin) < MinExtent

\* line 110: if target_width < 7 or target_height < 7
Degenerate(box) ==
    (box.xmax - box.xmin) < MinExtent \/ (box.ymax - box.ymin) < MinExtent

\* lines 108-117
Measure(box, img) ==
    LET w == box.xmax - box.xmin
        h == box.ymax - box.ymin
        xmid == RMul(RInt(box.xmin + box.xmax), Half)
        ymid == RMul(RInt(box.ymin + box.ymax), Half)
        side == IF w >= h THEN w ELSE h
        two == RInt(2)
    IN  [target_width |-> w, target_height |-> h,
         target_xmid |-> xmid, target_ymid |-> ymid,
         target_side_len |-> side,
         sf_min |-> RMax(Rat(MinExtent, w), Rat(MinExtent, h)),
         sf_max |-> RMin(
             RDiv(RMul(RMin(xmid, RSub(RInt(img.width), xmid)), two), RInt(side)),
             RDiv(RMul(RMin(ymid, RSub(RInt(img.height), ymid)), two), RInt(side)))]

\* line 118: the interval the anchor scale factor is drawn from
AnchorLow(m) == RMax(RMin(Rat(3, 4), m.sf_max), m.sf_min)
AnchorHigh(m) == RMin(Rat(5, 4), m.sf_max)

\* line 156: the interval the negative scale factor is drawn from
NegLow(m) == RMax(RMin(Rat(1, 2), m.sf_max), m.sf_min)
NegHigh(m) == RMin(Rat(3, 2), m.sf_max)

\* lines 123-126, assignment by assignment: each line reads the variables as
\* the lines before it left them.
FlipBox(box, img) ==
    LET xmin1 == img.width - box.xmax
        xmax1 == img.width - xmin1
        ymin1 == img.height - box.ymax
        ymax1 == img.height - ymin1
    IN  [xmin |-> xmin1, xmax |-> xmax1, ymin |-> ymin1, ymax |-> ymax1]

\* lines 129-133
Patch(m, scale_factor) ==
    LET size == RMul(RInt(m.target_side_len), scale_factor)
        x0 == RSub(m.target_xmid, RMul(size, Half))
        y0 == RSub(m.target_ymid, RMul(size, Half))
    IN  [size |-> size, xmin |-> x0, ymin |-> y0,
         xmax |-> RAdd(x0, size), ymax |-> RAdd(y0, size)]

\* lines 146-149
BBox(box, m, patch) ==
    [x |-> RDiv(RMul(RSub(RSub(RInt(box.xmin + box.xmax), patch.xmin), patch.xmax), Half),
                patch.size),
     y |-> RDiv(RMul(RSub(RSub(RInt(box.ymin + box.ymax), patch.ymin), patch.ymax), Half),
                patch.size),
     w |-> RSub(RDiv(RInt(m.target_width), patch.size), RInt(1)),
     h |-> RSub(RDiv(RInt(m.target_height), patch.size), RInt(1))]

\* lines 156-162
NegPatch(m, img, patch, ks, kx, ky) ==
    LET size == RMul(RInt(m.target_side_len), Uniform(NegLow(m), NegHigh(m), ks))
        jx == Uniform(Rat(-1, 2), Half, kx)
        jy == Uniform(Rat(-1, 2), Half, ky)
        x0 == RMin(RMax(RAdd(patch.xmin, RMul(patch.size, jx)), RInt(0)),
                   RSub(RInt(img.width), size))
        y0 == RMin(RMax(RAdd(patch.ymin, RMul(patch.size, jy)), RInt(0)),
                   RSub(RInt(img.height), size))
    IN  [size |-> size, xmin |-> x0, ymin |-> y0,
         xmax |-> RAdd(x0, size), ymax |-> RAdd(y0, size)]

\* an image as the loader returns it
Unmirrored(img) == [width |-> img.width, height |-> img.height, mirrored |-> FALSE]

\* ------------------------------------------------------ the activations
\* One activation of __getitem__, with its local variables. why is history:
\* the failure that led to this activation, kept until line 51 has run.
\* A tail call 'return self[...]' hands its callee's value or exception on
\* unchanged, so the callee takes the caller's place in the stack; only the
\* call of line 79, made inside _retrieve_img_from_web, leaves the caller
\* with work to do (pc "mapcall" under line 95, "retrycall" under line 139).
NewFrame(i, why) ==
    [index |-> i, why |-> why, pc |-> "resolve",
     cid |-> -1, idx_in_class |-> -1, class_labels |-> [k \in Classes |-> 0],
     ret |-> Unset, img |-> Unset, ann |-> Unset, box |-> Unset, m |-> Unset,
     scale_factor |-> Unset, flipped |-> FALSE]

Top == stack[Len(stack)]
Below == SubSeq(stack, 1, Len(stack) - 1)
SetTop(f) == [stack EXCEPT ![Len(stack)] = f]
Running(pc) == stack # <<>> /\ Top.pc = pc

RandIntFirst(n) == IF n > 0 THEN {0} ELSE {}

\* np.random.randint(len(self)): any index of [0, len(self))
RandInt(n) == 0 .. (n - 1)

\* return self[np.random.randint(len(self))]
Resample(f, why) ==
    /\ \E j \in RandInt(Length(synset_sizes)) :
           stack' = SetTop(NewFrame(j, why))
    /\ UNCHANGED <<synset_sizes, idx_end, result, elsewhere>>

Falsy(ret) == IF ret.kind = "bool" THEN ~ret.val ELSE FALSE

\* 'not ret' of line 96: a bool by its value; the 6-tuple that line 79 hands
\* back is not empty, hence true
Truthy(ret) == IF ret.kind = "bool" THEN ret.val ELSE TRUE

\* item_at(i), called by the batching layer on a valid index
Call(i) ==
    /\ stack = <<>>
    /\ i \in 0 .. (Length(synset_sizes) - 1)
    /\ stack' = <<NewFrame(i, "call")>>
    /\ result' = [kind |-> "none"]
    /\ UNCHANGED <<synset_sizes, idx_end, elsewhere>>

\* lines 51-68: resolve the index, read the annotation, look for the object
Resolve ==
    /\ Running("resolve")
    /\ LET cid == ClassOf(idx_end, Top.index)
           f == [Top EXCEPT !.cid = cid,
                            !.idx_in_class = IdxInClass(idx_end, Top.index, cid),
                            !.class_labels = ClassLabels(cid),
                            !.why = Null]
       IN  \E found \in BOOLEAN :
               IF found
               THEN /\ stack' = SetTop([f EXCEPT !.pc = "load"])
                    /\ UNCHANGED <<synset_sizes, idx_end, result, elsewhere>>
               ELSE Resample(f, "noobject")

\* lines 91-93: img = self._loader(img_path), or OSError
Load ==
    /\ Running("load")
    /\ \/ \E img \in Images :
              stack' = SetTop([Top EXCEPT !.img = Unmirrored(img),
                                          !.pc = "boxcheck"])
       \/ stack' = SetTop([Top EXCEPT !.pc = "fetch"])
    /\ UNCHANGED <<synset_sizes, idx_end, result, elsewhere>>

\* lines 73-89 under line 95: _retrieve_img_from_web(). The mapping request
\* fails (line 79 calls self[...] and returns its value), or no line matches
\* (False), or download_img answers.
Fetch ==
    /\ Running("fetch")
    /\ \/ /\ Len(stack) <= MaxNest
          /\ \E j \in RandInt(Length(synset_sizes)) :
                 stack' = Append(SetTop([Top EXCEPT !.pc = "mapcall"]),
                                 NewFrame(j, "mapping"))
       \/ \E ret \in BOOLEAN :
              stack' = SetTop([Top EXCEPT !.ret = [kind |-> "bool", val |-> ret],
                                          !.pc = "retcheck"])
    /\ UNCHANGED <<synset_sizes, idx_end, result, elsewhere>>

\* lines 96-101: if not ret: resample; else load again, or resample on OSError
\* (ret is not read after line 96 and is forgotten here)
RetCheck ==
    /\ Running("retcheck")
    /\ IF ~Truthy(Top.ret)
       THEN Resample(Top, "fetch")
       ELSE \/ /\ \E img \in Images :
                      stack' = SetTop([Top EXCEPT !.img = Unmirrored(img),
                                                  !.ret = Unset, !.pc = "boxcheck"])
               /\ UNCHANGED <<synset_sizes, idx_end, result, elsewhere>>
            \/ Resample(Top, "reload")

\* target_patch_size and target_patch_xmin ... ymax of an activation: lines
\* 129-133 compute them from the measures and the scale factor it holds
PatchOf(f) == Patch(f.m, f.scale_factor)

\* The 6-tuple of lines 165-170. src is history: the index, the annotated box
\* and the geometry the tuple was computed from.
Tuple(f, neg) ==
    LET patch == PatchOf(f)
        bbox == BBox(f.box, f.m, patch)
    IN  [kind |-> "tuple",
         target |-> [rect |-> patch, mirrored |-> f.img.mirrored],
         pos_sample |-> [rect |-> patch, mirrored |-> f.img.mirrored,
                         center |-> <<f.m.target_xmid, f.m.target_ymid>>],
         neg_sample |-> [rect |-> neg, mirrored |-> f.img.mirrored],
         class_labels |-> f.class_labels,
         bbox |-> bbox, bbox_dup |-> bbox,
         src |-> [index |-> f.index, ann |-> f.ann, box |-> f.box, img |-> f.img,
                  m |-> f.m, scale_factor |-> f.scale_factor, flipped |-> f.flipped]]

\* lines 145-170, reached with the anchor cropped: the regression target, the
\* rotated positive (a patch is its rectangle here, so the angle of line 152
\* is not kept), the negative crop and the return. The crops of lines 153 and
\* 163 stand in no try block: the positive crop is the anchor rectangle, which
\* was cropped already; the negative rectangle is a new one, and its crop
\* succeeds or raises DecompressionBombError.
\* The tuple goes to the caller of item_at, or to line 79 of the activation
\* below, where it becomes the value of _retrieve_img_from_web(): kept as ret
\* under line 95, where only its truth is read, and dropped under line 139.
Finish(f) ==
    \/ /\ Len(stack) = 1
       /\ \E ks \in Grid, kx \in Grid, ky \in Grid :
              result' = Tuple(f, NegPatch(f.m, f.img, PatchOf(f), ks, kx, ky))
       /\ stack' = <<>>
    \/ /\ Len(stack) > 1
       /\ LET caller == stack[Len(stack) - 1]
          IN  stack' = [Below EXCEPT ![Len(stack) - 1] =
                  IF caller.pc = "mapcall"
                  THEN [caller EXCEPT !.ret = [kind |-> "tuple"], !.pc = "retcheck"]
                  ELSE [caller EXCEPT !.pc = "retryload"]]
       /\ UNCHANGED result
    \/ /\ stack' = SetTop([NewFrame(f.index, Null) EXCEPT !.pc = "raised"])
       /\ UNCHANGED result

\* lines 104-170: read the box and reject a degenerate one (110-111); draw
\* the scale factor (118); flip or not (121-126); lay out the anchor
\* rectangle and crop it (129-135); when the crop raises
\* DecompressionBombError go to line 139, else finish.
Augment ==
    /\ Running("boxcheck")
    /\ \E box \in Boxes :
           IF Degenerate(box)
           THEN Resample(Top, "box")
           ELSE /\ \E k \in Grid, flip \in BOOLEAN, cropped \in BOOLEAN :
                       LET m == Measure(box, Top.img)
                           scale_factor == Uniform(AnchorLow(m), AnchorHigh(m), k)
                           f == [Top EXCEPT
                                    !.ann = box, !.m = m, !.scale_factor = scale_factor,
                                    !.flipped = flip,
                                    !.img = [@ EXCEPT !.mirrored = flip],
                                    !.box = IF flip THEN FlipBox(box, Top.img) ELSE box]
                       IN  IF cropped
                           THEN Finish(f)
                           ELSE /\ stack' = SetTop([f EXCEPT !.pc = "retry"])
                                /\ UNCHANGED result
                /\ UNCHANGED <<synset_sizes, idx_end, elsewhere>>

\* line 139: _retrieve_img_from_web() again, its value dropped; a failed
\* mapping request calls self[...] from line 79 here as well
Retry ==
    /\ Running("retry")
    /\ \/ /\ Len(stack) <= MaxNest
          /\ \E j \in RandInt(Length(synset_sizes)) :
                 stack' = Append(SetTop([Top EXCEPT !.pc = "retrycall"]),
                                 NewFrame(j, "mapping"))
       \/ stack' = SetTop([Top EXCEPT !.pc = "retryload"])
    /\ UNCHANGED <<synset_sizes, idx_end, result, elsewhere>>

\* lines 140-143 and on: load and crop again; whatever is raised, resample.
\* The image loaded here is not mirrored, whatever line 121 drew.
RetryLoad ==
    /\ Running("retryload")
    /\ \/ /\ \E img \in Images :
                 Finish([Top EXCEPT !.img = Unmirrored(img)])
          /\ UNCHANGED <<synset_sizes, idx_end, elsewhere>>
       \/ Resample(Top, "crop")

\* An exception leaves the running activation: the caller of item_at gets it,
\* or line 79 of the activation below does. Under line 95 nothing catches it;
\* under line 139 the bare except of line 142 does, and resamples.
Propagate ==
    /\ Running("raised")
    /\ IF Len(stack) = 1
       THEN /\ stack' = <<>>
            /\ result' = [kind |-> "error"]
            /\ UNCHANGED <<synset_sizes, idx_end, elsewhere>>
       ELSE LET caller == stack[Len(stack) - 1]
            IN  IF caller.pc = "mapcall"
                THEN /\ stack' = [Below EXCEPT ![Len(stack) - 1] =
                                      [caller EXCEPT !.pc = "raised"]]
                     /\ UNCHANGED <<synset_sizes, idx_end, result, elsewhere>>
                ELSE /\ \E j \in RandInt(Length(synset_sizes)) :
                            stack' = [Below EXCEPT ![Len(stack) - 1] =
                                          NewFrame(j, "crop")]
                     /\ UNCHANGED <<synset_sizes, idx_end, result, elsewhere>>

\* ------------------------------------------------------- specification
\* __init__, lines 32-41: the counts as found on disk and their running totals
Tables == {t \in [Classes -> 0 .. MaxTotal] : Length(t) <= MaxTotal}

\* no worker of the batching layer inside lines 91-101
RaceIdle ==
    /\ workers = <<>>
    /\ disk = [file |-> "absent", writing |-> {}]

\* update_imagenet_annotations not called
PoolIdle ==
    /\ threads = <<>>
    /\ finished_cnt = 0
    /\ updater = [pc |-> "idle", synsets |-> 0, next |-> 1, t |-> 0, loop |-> "for"]
    /\ downloads = [started |-> <<>>, finished |-> {}, joined |-> <<>>]
    /\ tmp_arch_storage = "absent"

Init ==
    /\ synset_sizes \in Tables
    /\ idx_end = CumSum(synset_sizes)
    /\ stack = <<>>
    /\ result = [kind |-> "none"]
    /\ fate = <<>>
    /\ RaceIdle
    /\ PoolIdle

Next ==
    \/ \E i \in 0 .. (MaxTotal - 1) : Call(i)
    \/ Resolve
    \/ Load
    \/ Fetch
    \/ RetCheck
    \/ Augment
    \/ Retry
    \/ RetryLoad
    \/ Propagate

Spec == Init /\ [][Next]_vars

\* ------------------------------------------- fixed answers, fair draws
\* FairSpec runs the same code with collaborators that answer the same way
\* every time an index is tried (fate), no mapping request that fails, and
\* fair draws of np.random.randint. What an index comes to:
\*   "ok"        an object of the class, an image that loads, a box of at least
\*               7 x 7, crops that succeed
\*   "noobject"  no object of the class (line 67)
\*   "noimage"   the image loads neither locally nor from the web: the fetch
\*               returns False (lines 93, 88-89, 96)
\*   "box"       a box below 7 in width or height (line 110)
\*   "crop"      the anchor crop raises DecompressionBombError, at line 135 and
\*               again at line 141
Fates == {"ok", "noobject", "noimage", "box", "crop"}

\* the running activation after the step
Top1 == stack'[Len(stack')]

FResolve ==
    /\ Resolve
    /\ Top1.pc = (IF fate[Top.index] = "noobject" THEN "resolve" ELSE "load")

FLoad ==
    /\ Load
    /\ Top1.pc = (IF fate[Top.index] = "noimage" THEN "fetch" ELSE "boxcheck")

FFetch ==
    /\ Fetch
    /\ Top1.pc = "retcheck"
    /\ ~Top1.ret.val

FRetCheck == RetCheck

\* lines 104-170 as far as they decide where control goes: the test of line
\* 110, the crop of line 135, the return of line 165. The box, the draws and
\* the rectangles, which no branch reads, are left to Augment.
FAugment ==
    /\ Running("boxcheck")
    /\ CASE fate[Top.index] = "box" -> Resample(Top, "box")
         [] fate[Top.index] = "crop" ->
                /\ stack' = SetTop([Top EXCEPT !.pc = "retry"])
                /\ UNCHANGED <<synset_sizes, idx_end, result, elsewhere>>
         [] OTHER ->
                /\ stack' = <<>>
                /\ result' = [kind |-> "tuple", class_labels |-> Top.class_labels,
                              src |-> [index |-> Top.index]]
                /\ UNCHANGED <<synset_sizes, idx_end, elsewhere>>

FRetry ==
    /\ Retry
    /\ Top1.pc = "retryload"

\* lines 140-143: the image loads, the crop raises again, line 143 resamples
FRetryLoad ==
    /\ Running("retryload")
    /\ Resample(Top, "crop")

\* the steps of the running call
Run == FResolve \/ FLoad \/ FFetch \/ FRetCheck \/ FAugment \/ FRetry \/ FRetryLoad

\* a step of the running call in which np.random.randint(len(self)) returns j
Draw(j) ==
    /\ Run
    /\ stack' # <<>>
    /\ Top1.pc = "resolve"
    /\ Top1.index = j

FairInit ==
    /\ synset_sizes \in Tables
    /\ idx_end = CumSum(synset_sizes)
    /\ stack = <<>>
    /\ result = [kind |-> "none"]
    /\ fate \in [0 .. (Length(synset_sizes) - 1) -> Fates]
    /\ RaceIdle
    /\ PoolIdle

FairNext ==
    \/ \E i \in 0 .. (MaxTotal - 1) : Call(i)
    \/ FResolve
    \/ FLoad
    \/ FFetch
    \/ FRetCheck
    \/ FAugment
    \/ FRetry
    \/ FRetryLoad

\* The interpreter runs a call that has a step to take, and every index is
\* drawn again and again when draws are made again and again.
FairSpec ==
    /\ FairInit
    /\ [][FairNext]_vars
    /\ WF_vars(Run)
    /\ \A j \in 0 .. (MaxTotal - 1) : SF_vars(Draw(j))

\* ------------------------------------------- two workers, one image file
\* RaceSpec: two workers of the batching layer run lines 91-101 on the same
\* index, whose image file is not on disk when they start. They share no
\* variable and take no lock; they meet in the file at img_path.
Workers == {1, 2}

\* no item_at call under way on a dataset in this process
ItemIdle ==
    /\ synset_sizes = [k \in Classes |-> 0]
    /\ idx_end = CumSum(synset_sizes)
    /\ stack = <<>>
    /\ result = [kind |-> "none"]
    /\ fate = <<>>

\* self._loader(img_path): an image from a whole file, a "not found" error
\* without a file, a decode error from a file that a download is still
\* writing
Loader(file) ==
    CASE file = "whole" -> "img"
      [] file = "absent" -> "FileNotFoundError"
      [] OTHER -> "OSError"

ExceptFileNotFound(exc) == exc = "FileNotFoundError"

\* lines 93 and 100: 'except OSError' takes OSError and its subclasses
ExceptOSError(exc) == exc \in {"OSError", "FileNotFoundError"}

\* the file after download_img has returned ok in worker w: the last writer
\* leaves a whole file or what it had when it failed; while the other worker
\* is still writing, the file is whatever the two have written so far
Written(w, ok) ==
    IF disk.writing \ {w} # {}
    THEN IF ok THEN {"whole", "partial"} ELSE {"partial"}
    ELSE IF ok THEN {"whole"} ELSE {"partial", "absent"}

SetWorker(w, pc, ret) == workers' = [workers EXCEPT ![w] = [pc |-> pc, ret |-> ret]]

\* lines 91-93: the local load; OSError leads to line 95
WLoad(w) ==
    /\ workers[w].pc = "load"
    /\ LET got == Loader(disk.file)
       IN  SetWorker(w, IF got = "img" THEN "augment"
                        ELSE IF ExceptOSError(got) THEN "mapping" ELSE "error",
                     workers[w].ret)
    /\ UNCHANGED <<disk, itemVars, poolVars>>

\* lines 75-87: the mapping request fails and line 79 resamples; or no line
\* matches and line 89 returns False; or a line matches and download_img
\* starts to write the file
WMapping(w) ==
    /\ workers[w].pc = "mapping"
    /\ \/ SetWorker(w, "mapcall", workers[w].ret) /\ UNCHANGED disk
       \/ SetWorker(w, "retcheck", FALSE) /\ UNCHANGED disk
       \/ /\ SetWorker(w, "download", workers[w].ret)
          /\ disk' = [file |-> "partial", writing |-> disk.writing \cup {w}]
    /\ UNCHANGED <<itemVars, poolVars>>

\* line 79: the resample comes back with its tuple, which line 95 keeps as ret
WMapCall(w) ==
    /\ workers[w].pc = "mapcall"
    /\ SetWorker(w, "retcheck", TRUE)
    /\ UNCHANGED <<disk, itemVars, poolVars>>

\* lines 85-88: download_img returns success or failure
WDownload(w) ==
    /\ workers[w].pc = "download"
    /\ \E ok \in BOOLEAN :
           /\ SetWorker(w, "retcheck", ok)
           /\ \E file \in Written(w, ok) :
                  disk' = [file |-> file, writing |-> disk.writing \ {w}]
    /\ UNCHANGED <<itemVars, poolVars>>

\* lines 96-97
WRetCheck(w) ==
    /\ workers[w].pc = "retcheck"
    /\ SetWorker(w, IF workers[w].ret THEN "reload" ELSE "resample", workers[w].ret)
    /\ UNCHANGED <<disk, itemVars, poolVars>>

\* lines 98-101: the second load; OSError resamples
WReload(w) ==
    /\ workers[w].pc = "reload"
    /\ LET got == Loader(disk.file)
       IN  SetWorker(w, IF got = "img" THEN "augment"
                        ELSE IF ExceptOSError(got) THEN "resample" ELSE "error",
                     workers[w].ret)
    /\ UNCHANGED <<disk, itemVars, poolVars>>

RaceInit ==
    /\ workers = [w \in Workers |-> [pc |-> "load", ret |-> FALSE]]
    /\ disk = [file |-> "absent", writing |-> {}]
    /\ ItemIdle
    /\ PoolIdle

RaceNext ==
    \E w \in Workers :
        \/ WLoad(w)
        \/ WMapping(w)
        \/ WMapCall(w)
        \/ WDownload(w)
        \/ WRetCheck(w)
        \/ WReload(w)

RaceSpec == RaceInit /\ [][RaceNext]_vars

\* ------------------------------------- update_imagenet_annotations
\* PoolSpec: update_imagenet_annotations(imagenet_dir) with no synset given.
\* The synsets are numbered 1 .. updater.synsets in the order of the list, and
\* a download thread goes by the number of its synset. downloads keeps the
\* threads in the order they were started, those whose target has returned,
\* and the threads in the order they were joined.
PoolOverfull(q) == Len(q) > num_workers

\* line 211: threads.qsize() >= num_workers
PoolFull(q) == Len(q) >= num_workers

Newest(q) == q[Len(q)]

\* threads.get() of a queue.Queue: the item that was put first
Oldest(q) == Head(q)

\* the queue once get() has taken t
Without(q, t) == SelectSeq(q, LAMBDA x : x # t)

Unjoined == {downloads.started[k] : k \in DOMAIN downloads.started}
                \ {downloads.joined[k] : k \in DOMAIN downloads.joined}

\* lines 177-187 and 204-206: the directories, the queue and the counter
Begin ==
    /\ updater.pc = "begin"
    /\ tmp_arch_storage' = "present"
    /\ threads' = <<>>
    /\ finished_cnt' = 0
    /\ updater' = [updater EXCEPT !.pc = "for"]
    /\ UNCHANGED <<downloads, itemVars, raceVars>>

\* lines 207-209: the next synset of the list, its thread made and started;
\* with the list at its end, on to line 216
Start ==
    /\ updater.pc = "for"
    /\ IF updater.next <= updater.synsets
       THEN /\ downloads' = [downloads EXCEPT !.started = Append(@, updater.next)]
            /\ updater' = [updater EXCEPT !.t = updater.next, !.next = @ + 1,
                                          !.pc = "put"]
       ELSE /\ updater' = [updater EXCEPT !.loop = "while", !.pc = "while"]
            /\ UNCHANGED downloads
    /\ UNCHANGED <<threads, finished_cnt, tmp_arch_storage, itemVars, raceVars>>

\* lines 210-211: threads.put(t), then the test of the queue's size
Put ==
    /\ updater.pc = "put"
    /\ threads' = Append(threads, updater.t)
    /\ updater' = [updater EXCEPT !.pc = IF PoolFull(threads') THEN "get" ELSE "for"]
    /\ UNCHANGED <<finished_cnt, downloads, tmp_arch_storage, itemVars, raceVars>>

\* line 216: while not threads.empty()
While ==
    /\ updater.pc = "while"
    /\ updater' = [updater EXCEPT !.pc = IF threads # <<>> THEN "get" ELSE "rmdir"]
    /\ UNCHANGED <<threads, finished_cnt, downloads, tmp_arch_storage, itemVars,
                   raceVars>>

\* threads.get() of lines 212 and 217
Get ==
    /\ updater.pc = "get"
    /\ LET t == Oldest(threads)
       IN  /\ threads' = Without(threads, t)
           /\ updater' = [updater EXCEPT !.t = t, !.pc = "join"]
    /\ UNCHANGED <<finished_cnt, downloads, tmp_arch_storage, itemVars, raceVars>>

\* .join() of lines 212 and 217, which returns once the thread's target has,
\* and the finished_cnt += 1 of lines 213 and 218
Join ==
    /\ updater.pc = "join"
    /\ updater.t \in downloads.finished
    /\ downloads' = [downloads EXCEPT !.joined = Append(@, updater.t)]
    /\ finished_cnt' = finished_cnt + 1
    /\ updater' = [updater EXCEPT !.pc = updater.loop]
    /\ UNCHANGED <<threads, tmp_arch_storage, itemVars, raceVars>>

\* line 224: os.rmdir(tmp_arch_storage)
Rmdir ==
    /\ updater.pc = "rmdir"
    /\ tmp_arch_storage' = "removed"
    /\ updater' = [updater EXCEPT !.pc = "done"]
    /\ UNCHANGED <<threads, finished_cnt, downloads, itemVars, raceVars>>

\* lines 189-198, the target of thread t, from its start to its return:
\* the archive is fetched, unpacked and removed, or IOError ends it early.
\* The threads run in any order: the one the updater waits for in join can
\* always return, another one while fewer than MaxEarly have returned unjoined.
Download(t) ==
    /\ t \in Unjoined \ downloads.finished
    /\ \/ updater.pc = "join" /\ t = updater.t
       \/ Cardinality(Unjoined \cap downloads.finished) < MaxEarly
    /\ downloads' = [downloads EXCEPT !.finished = @ \cup {t}]
    /\ UNCHANGED <<threads, finished_cnt, updater, tmp_arch_storage, itemVars,
                   raceVars>>

PoolInit ==
    /\ \E n \in 0 .. MaxSynsets :
           updater = [pc |-> "begin", synsets |-> n, next |-> 1, t |-> 0, loop |-> "for"]
    /\ threads = <<>>
    /\ finished_cnt = 0
    /\ downloads = [started |-> <<>>, finished |-> {}, joined |-> <<>>]
    /\ tmp_arch_storage = "absent"
    /\ ItemIdle
    /\ RaceIdle

PoolNext ==
    \/ Begin
    \/ Start
    \/ Put
    \/ While
    \/ Get
    \/ Join
    \/ Rmdir
    \/ \E t \in Unjoined : Download(t)

PoolSpec == PoolInit /\ [][PoolNext]_vars

\* =================================================================== claims
Total == Length(synset_sizes)
Valid == 0 .. (Total - 1)

\* the activations that have run line 51
Resolved(f) == f.pc \notin {"resolve", "raised"}

\* the activations that hold a scale factor, a box and an anchor rectangle
Measured(f) == f.pc \in {"retry", "retrycall", "retryload"}

\* k is the smallest class whose ending index is at least i + 1
SmallestClass(k, i) ==
    /\ k \in Classes
    /\ idx_end[k] >= i + 1
    /\ \A j \in Classes : j < k => idx_end[j] < i + 1

OneHot(labels, k) ==
    /\ DOMAIN labels = Classes
    /\ labels[k] = 1
    /\ \A j \in Classes : j # k => labels[j] = 0

\* C1: for every count table and every global index i of [0, total_count),
\* the class resolved is the smallest k with cumulative[k] >= i + 1, the
\* position is i - cumulative[k - 1] (i when k = 0), and
\* 0 <= position < count[class]: an empty class is never resolved. Every
\* activation that has resolved its index holds that class and position.
C1_IndexResolution ==
    /\ \A i \in Valid :
           LET c == ClassOf(idx_end, i)
               pos == IdxInClass(idx_end, i, c)
           IN  /\ SmallestClass(c, i)
               /\ pos = (IF c = 0 THEN i ELSE i - idx_end[c - 1])
               /\ 0 <= pos
               /\ pos < synset_sizes[c]
    /\ \A n \in DOMAIN stack :
           Resolved(stack[n]) =>
               /\ SmallestClass(stack[n].cid, stack[n].index)
               /\ 0 <= stack[n].idx_in_class
               /\ stack[n].idx_in_class < synset_sizes[stack[n].cid]

\* an activation has resolved an index to a class that follows an empty class
C1_Witness ==
    /\ Running("load")
    /\ Top.cid >= 1
    /\ synset_sizes[Top.cid - 1] = 0

NonDecreasing ==
    \A i \in Valid, j \in Valid :
        i <= j => ClassOf(idx_end, i) <= ClassOf(idx_end, j)

TableShape ==
    /\ DOMAIN idx_end = Classes
    /\ idx_end[0] = synset_sizes[0]
    /\ \A i \in Classes : i >= 1 => idx_end[i] - idx_end[i - 1] = synset_sizes[i]
    /\ idx_end[MaxClasses - 1] = Length(synset_sizes)

\* C3: after construction and after every step of every item_at call the
\* synset table is what it was, cumulative[0] = count[0],
\* cumulative[i] - cumulative[i - 1] = count[i] for i >= 1, and
\* sum(count) = cumulative[last] = length().
C3_TableImmutable ==
    /\ TableShape
    /\ [][/\ synset_sizes' = synset_sizes
          /\ idx_end' = idx_end
          /\ TableShape']_vars

\* inside a call made from line 79, a remote fetch has failed and the
\* activation has resampled
C3_Witness ==
    /\ Len(stack) = 2
    /\ Top.pc = "resolve"
    /\ Top.why = "fetch"

\* C4 as stated: whatever the collaborators answer, item_at never ends in an
\* error: no exception leaves an activation and none reaches the caller.
C4_NeverError ==
    /\ result.kind # "error"
    /\ \A n \in DOMAIN stack : stack[n].pc # "raised"

\* C5 as stated: whenever an activation resamples, the index at which
\* resolution is entered again lies in [0, total_count) and differs from the
\* index that just failed.
C5_ResampleDiffers ==
    [][(/\ stack # <<>>
        /\ stack' # <<>>
        /\ stack'[Len(stack')].pc = "resolve")
       => LET failed == IF Len(stack') < Len(stack)
                        THEN stack[Len(stack) - 1].index
                        ELSE stack[Len(stack)].index
              again == stack'[Len(stack')].index
          IN  again \in Valid /\ again # failed]_vars

LabelAt(labels, index) == \E k \in Classes : SmallestClass(k, index) /\ OneHot(labels, k)

\* C6: the class-label vector of every returned tuple has length num_classes
\* and exactly one 1, at the class of the global index whose annotation and
\* image the tuple was computed from; so has the label vector of every
\* activation that has resolved its index.
C6_LabelAtSource ==
    /\ result.kind = "tuple" => LabelAt(result.class_labels, result.src.index)
    /\ \A n \in DOMAIN stack :
           Resolved(stack[n]) => LabelAt(stack[n].class_labels, stack[n].index)

\* a tuple has come back whose label is at a class other than the first, the
\* class of its source index
C6_Witness ==
    /\ result.kind = "tuple"
    /\ result.src.index >= 1
    /\ \E k \in Classes : k >= 1 /\ result.class_labels[k] = 1

WideEnough(box) ==
    /\ box.xmax - box.xmin >= MinExtent
    /\ box.ymax - box.ymin >= MinExtent

\* C7: no returned tuple, and no activation that holds a scale factor and an
\* anchor rectangle, was computed from an object whose width or height is
\* below 7.
C7_NoDegenerateSource ==
    /\ result.kind = "tuple" => WideEnough(result.src.ann)
    /\ \A n \in DOMAIN stack : Measured(stack[n]) => WideEnough(stack[n].ann)

\* an object below the minimum extent was read and the activation resampled
C7_Witness ==
    /\ Running("resolve")
    /\ Top.why = "box"

RNeg(a) == Rat(-a.n, a.d)

\* the horizontal mirror of a box in an image: x becomes W - x, y stays
FlipBoxMirror(box, img) ==
    [xmin |-> img.width - box.xmax, xmax |-> img.width - box.xmin,
     ymin |-> box.ymin, ymax |-> box.ymax]

\* C8 as stated: in the flip branch the box becomes
\* (W - old_xmax, W - old_xmin, old_ymin, old_ymax) and the regression target
\* is that of the unflipped case with dx negated and dy, dw, dh unchanged.
C8_FlipMirrors ==
    (result.kind = "tuple" /\ result.src.flipped) =>
        LET src == result.src
            unflipped == BBox(src.ann, src.m, result.target.rect)
        IN  /\ src.box = FlipBoxMirror(src.ann, src.img)
            /\ result.bbox.x = RNeg(unflipped.x)
            /\ result.bbox.y = unflipped.y
            /\ result.bbox.w = unflipped.w
            /\ result.bbox.h = unflipped.h

\* The box that the target and the anchor rectangle stand for.
Recomputed(bbox, rect) ==
    LET cx == RAdd(RMul(RAdd(rect.xmin, rect.xmax), Half), RMul(bbox.x, rect.size))
        cy == RAdd(RMul(RAdd(rect.ymin, rect.ymax), Half), RMul(bbox.y, rect.size))
        w == RMul(RAdd(bbox.w, RInt(1)), rect.size)
        h == RMul(RAdd(bbox.h, RInt(1)), rect.size)
    IN  [xmin |-> RSub(cx, RMul(w, Half)), xmax |-> RAdd(cx, RMul(w, Half)),
         ymin |-> RSub(cy, RMul(h, Half)), ymax |-> RAdd(cy, RMul(h, Half))]

RBox(box) ==
    [xmin |-> RInt(box.xmin), xmax |-> RInt(box.xmax),
     ymin |-> RInt(box.ymin), ymax |-> RInt(box.ymax)]

\* C9 as stated: for every returned tuple the box recomputed from the target
\* and the anchor rectangle is the box of the object in the image the anchor
\* was cropped from: the annotated box, or its horizontal mirror when that
\* image is mirrored.
C9_RoundTrip ==
    result.kind = "tuple" =>
        Recomputed(result.bbox, result.target.rect) =
            RBox(IF result.target.mirrored
                 THEN FlipBoxMirror(result.src.ann, result.src.img)
                 ELSE result.src.ann)

Inside(box, img) ==
    /\ 0 <= box.xmin /\ box.xmin <= box.xmax /\ box.xmax <= img.width
    /\ 0 <= box.ymin /\ box.ymin <= box.ymax /\ box.ymax <= img.height

ScaleInRange(ann, img, m, scale_factor, patch) ==
    (WideEnough(ann) /\ Inside(ann, img)) =>
        /\ RLe(m.sf_min, RInt(1))
        /\ RLe(m.sf_min, scale_factor)
        /\ RLe(scale_factor, m.sf_max)
        /\ RLe(RInt(MinExtent), patch.size)
        /\ RLe(RInt(0), patch.xmin) /\ RLe(patch.xmax, RInt(img.width))
        /\ RLe(RInt(0), patch.ymin) /\ RLe(patch.ymax, RInt(img.height))

\* C10 as stated: for every box at least 7 wide and high that lies inside the
\* image, sf_min <= 1, the anchor scale factor lies in [sf_min, sf_max], and
\* the anchor square has side at least 7 and lies inside the image.
C10_ScaleInRange ==
    /\ result.kind = "tuple" =>
           ScaleInRange(result.src.ann, result.src.img, result.src.m,
                        result.src.scale_factor, result.target.rect)
    /\ \A n \in DOMAIN stack :
           Measured(stack[n]) =>
               ScaleInRange(stack[n].ann, stack[n].img, stack[n].m,
                            stack[n].scale_factor, PatchOf(stack[n]))

\* C11: when the local load has failed, the mapping held the filename and the
\* download reported success, the step that follows is one more call of the
\* loader on the same path, and nothing else: either it succeeds and the same
\* activation, with the index, class, position and labels it resolved, stands
\* before the augmentation with the image just loaded and no resample; or it
\* fails and the activation resamples an index of [0, total_count).
C11_ReloadOnce ==
    [][(/\ Running("retcheck")
        /\ Top.ret.kind = "bool"
        /\ Top.ret.val)
       => /\ Len(stack') = Len(stack)
          /\ SubSeq(stack', 1, Len(stack) - 1) = Below
          /\ LET f == Top
                 g == stack'[Len(stack')]
             IN  \/ /\ g.pc = "boxcheck"
                    /\ g.img \in {Unmirrored(img) : img \in Images}
                    /\ g = [f EXCEPT !.img = g.img, !.ret = Unset, !.pc = "boxcheck"]
                 \/ \E j \in Valid : g = NewFrame(j, "reload")]_vars

\* the download reported success, the second load failed and the activation
\* has resampled
C11_Witness ==
    /\ Running("resolve")
    /\ Top.why = "reload"

\* C12 as stated: a remote fetch that fails, in any of its three ways, ends
\* the activation in one resample whose value goes to the caller: no
\* activation stands at line 96 holding the value of a resample that a failed
\* mapping request started, about to load its own image again.
C12_FetchFailureResamples ==
    \A n \in DOMAIN stack :
        stack[n].pc = "retcheck" => stack[n].ret.kind = "bool"

ProperInterval(m) == RLe(AnchorLow(m), AnchorHigh(m))

\* C13 as stated: no returned tuple, and no activation that holds a scale
\* factor, was computed from a scale factor drawn from an inverted interval
\* (lower end above upper end).
C13_NoInvertedInterval ==
    /\ result.kind = "tuple" => ProperInterval(result.src.m)
    /\ \A n \in DOMAIN stack : Measured(stack[n]) => ProperInterval(stack[n].m)

\* C14 as stated: the negative rectangle of every returned tuple lies inside
\* the image: 0 <= neg_xmin, neg_xmin + neg_size <= img_width, 0 <= neg_ymin,
\* neg_ymin + neg_size <= img_height.
C14_NegativeInside ==
    result.kind = "tuple" =>
        LET neg == result.neg_sample.rect
            img == result.src.img
        IN  /\ RLe(RInt(0), neg.xmin)
            /\ RLe(RAdd(neg.xmin, neg.size), RInt(img.width))
            /\ RLe(RInt(0), neg.ymin)
            /\ RLe(RAdd(neg.ymin, neg.size), RInt(img.height))

Whys == {"noobject", "fetch", "reload", "box", "crop", "mapping"}

SomeSound == \E i \in Valid : fate[i] = "ok"

C17_PoolBound ==
    /\ Cardinality(Unjoined) <= num_workers
    /\ Cardinality(Unjoined) = num_workers =>
           /\ updater.pc \in {"put", "get", "join", "while"}
           /\ updater.pc = "get" => Oldest(threads) = downloads.started[Len(downloads.joined) + 1]
           /\ updater.pc = "join" => updater.t = downloads.started[Len(downloads.joined) + 1]

\* 32 threads are started and not joined, and the updater waits in join for
\* the oldest while a younger one has returned already
C17_Witness ==
    /\ Cardinality(Unjoined) = num_workers
    /\ updater.pc = "join"
    /\ updater.loop = "for"
    /\ updater.t \notin downloads.finished
    /\ downloads.finished \cap Unjoined # {}

AllSynsets == [k \in 1 .. updater.synsets |-> k]

\* C18: one thread is started per synset, in the order of the list; the
\* threads are joined once each, in the order they were started;
\* finished_cnt counts the joins and is the number of synsets when the loops
\* have ended; and the archive directory is removed only when every thread
\* has been joined.
C18_JoinedInOrder ==
    /\ downloads.started = SubSeq(AllSynsets, 1, Len(downloads.started))
    /\ Len(downloads.joined) <= Len(downloads.started)
    /\ downloads.joined = SubSeq(downloads.started, 1, Len(downloads.joined))
    /\ finished_cnt = Len(downloads.joined)
    /\ updater.pc \in {"rmdir", "done"} =>
           /\ downloads.started = AllSynsets
           /\ downloads.joined = AllSynsets
           /\ finished_cnt = updater.synsets
    /\ tmp_arch_storage = "removed" =>
           /\ updater.pc = "done"
           /\ downloads.joined = AllSynsets

\* the directory is gone after a run over more synsets than the pool holds
C18_Witness ==
    /\ tmp_arch_storage = "removed"
    /\ updater.synsets > num_workers
    /\ finished_cnt = updater.synsets
====
